---- MODULE Spec2Model ----
(***************************************************************************)
(* Model of the Python binding layer of the opening-hours engine           *)
(* (src/src/lib.rs, src/src/types.rs, src/src/errors.rs).                  *)
(*                                                                         *)
(* The binding owns an Arc<time_domain::TimeDomain>, converts datetimes    *)
(* between Python's datetime and chrono's NaiveDateTime, maps RuleKind to  *)
(* the tokens "open" / "closed" / "unknown", and wraps the engine's        *)
(* interval iterator in RangeIterator.  The engine itself (the crate       *)
(* opening_hours: parser::parse, TimeDomain::state, next_change,           *)
(* iter_range, iter_from) is not part of the sources; it is modelled from  *)
(* its contract as a piecewise-constant schedule.                          *)
(***************************************************************************)
EXTENDS Integers, Sequences, FiniteSets, TLC

\* --------------------------------------------------------------------------
\* Option values (Rust's Option / Python's None)
\* --------------------------------------------------------------------------
None ==
  [tag |-> "None"]

Some(x) ==
  [tag |-> "Some", val |-> x]

\* --------------------------------------------------------------------------
\* Datetime values
\* --------------------------------------------------------------------------

\* chrono::NaiveDateTime as built by NaiveDateTime::new(NaiveDate, NaiveTime).
NaiveDateTime(y, mo, d, h, mi, s, n) ==
  [year |-> y, month |-> mo, day |-> d,
   hour |-> h, minute |-> mi, second |-> s, nano |-> n]

\* Python datetime as built by PyDateTime::new(py, y, mo, d, h, mi, s, us, None).
PyDateTime(y, mo, d, h, mi, s, us) ==
  [year |-> y, month |-> mo, day |-> d,
   hour |-> h, minute |-> mi, second |-> s, microsecond |-> us]

\* Derived Ord of NaiveDateTimeWrapper: the date is compared first, then the
\* time of day.
DateKey(dt) ==
  (dt.year * 13 + dt.month) * 32 + dt.day

TimeKey(dt) ==
  ((dt.hour * 60 + dt.minute) * 60 + dt.second) * 2 + (IF dt.nano > 0 THEN 1 ELSE 0)

DtLess(a, b) ==
  \/ DateKey(a) < DateKey(b)
  \/ DateKey(a) = DateKey(b) /\ TimeKey(a) < TimeKey(b)

DtGeq(a, b) ==
  ~DtLess(a, b)

DtMin(a, b) ==
  IF DtLess(b, a) THEN b ELSE a

\* NaiveDateTimeWrapper::max_py_value
max_py_value ==
  NaiveDateTime(9999, 12, 31, 23, 59, 59, 0)

\* Years PyDateTime::new accepts (datetime.MINYEAR to datetime.MAXYEAR); any
\* other year makes the constructor return an error.
PyMinYear ==
  1

PyMaxYear ==
  9999

\* Fault: extract with the month and the day exchanged.
extract_swapped(ob) ==
  NaiveDateTime(ob.year, ob.day, ob.month, ob.hour, ob.minute, ob.second, 0)

\* FromPyObject::extract: the six fields are copied, microseconds are not read.
extract(ob) ==
  NaiveDateTime(ob.year, ob.month, ob.day, ob.hour, ob.minute, ob.second, 0)

\* Fault: into_py clamping only after max_py_value (> for >=).
into_py_strict(self) ==
  IF DtLess(max_py_value, self)
    THEN [tag |-> "Ok", val |-> None]
    ELSE IF self.year < PyMinYear \/ self.year > PyMaxYear
      THEN [tag |-> "Err"]
      ELSE [tag |-> "Ok",
            val |-> Some(PyDateTime(self.year, self.month, self.day,
                                    self.hour, self.minute, 0, 0))]

\* Fault: into_py without the clamp.
into_py_unclamped(self) ==
  IF self.year < PyMinYear \/ self.year > PyMaxYear
    THEN [tag |-> "Err"]
    ELSE [tag |-> "Ok",
          val |-> Some(PyDateTime(self.year, self.month, self.day,
                                  self.hour, self.minute, 0, 0))]

\* IntoPy<PyResult<Option<Py<PyDateTime>>>>::into_py
\*   Ok(None) at or after max_py_value, Ok(Some(datetime)) with second and
\*   microsecond 0 otherwise, Err when PyDateTime::new rejects the fields.
into_py(self) ==
  IF DtGeq(self, max_py_value)
    THEN [tag |-> "Ok", val |-> None]
    ELSE IF self.year < PyMinYear \/ self.year > PyMaxYear
      THEN [tag |-> "Err"]
      ELSE [tag |-> "Ok",
            val |-> Some(PyDateTime(self.year, self.month, self.day,
                                    self.hour, self.minute, 0, 0))]

\* IntoPy<Py<PyAny>>::into_py: .expect() aborts on Err.
Panic ==
  [tag |-> "Panic"]

into_py_any(self) ==
  LET result == into_py(self)
  IN  IF result.tag = "Err" THEN Panic ELSE result.val

\* --------------------------------------------------------------------------
\* State codec
\* --------------------------------------------------------------------------
RuleKind ==
  {"RuleKind::Open", "RuleKind::Closed", "RuleKind::Unknown"}

\* Fault: From<RuleKind> sending Closed to Unknown.
State_from_slip(kind) ==
  CASE kind = "RuleKind::Open"    -> "State::Open"
    [] kind = "RuleKind::Closed"  -> "State::Unknown"
    [] kind = "RuleKind::Unknown" -> "State::Unknown"

\* impl From<RuleKind> for State
State_from(kind) ==
  CASE kind = "RuleKind::Open"    -> "State::Open"
    [] kind = "RuleKind::Closed"  -> "State::Closed"
    [] kind = "RuleKind::Unknown" -> "State::Unknown"

\* impl IntoPy<Py<PyAny>> for State
State_into_py(self) ==
  CASE self = "State::Open"    -> "open"
    [] self = "State::Closed"  -> "closed"
    [] self = "State::Unknown" -> "unknown"

\* --------------------------------------------------------------------------
\* The engine (crate opening_hours), modelled from its contract.
\*
\* A parsed TimeDomain is a sequence of segments, each holding one rule kind
\* and its comments from its "from" instant up to the next segment's; the
\* first segment reaches back to the beginning of time.  Adjacent segments
\* differ, so a segment is a maximal span of constant state.
\* --------------------------------------------------------------------------

\* Upper limit of the engine's dates: "no further change".
DATE_LIMIT ==
  NaiveDateTime(10000, 1, 1, 0, 0, 0, 0)

Seg(from, kind, comments) ==
  [from |-> from, kind |-> kind, comments |-> comments]

TD_open ==
  << Seg(NaiveDateTime(0, 1, 1, 0, 0, 0, 0), "RuleKind::Open", <<>>) >>

TD_off ==
  << Seg(NaiveDateTime(0, 1, 1, 0, 0, 0, 0), "RuleKind::Closed", <<>>) >>

TD_unknown ==
  << Seg(NaiveDateTime(0, 1, 1, 0, 0, 0, 0), "RuleKind::Unknown", <<>>) >>

TD_alternating ==
  << Seg(NaiveDateTime(0, 1, 1, 0, 0, 0, 0),     "RuleKind::Closed",  <<>>),
     Seg(NaiveDateTime(2020, 1, 1, 0, 0, 0, 0),  "RuleKind::Open",    <<"by appointment">>),
     Seg(NaiveDateTime(2020, 1, 1, 12, 0, 0, 0), "RuleKind::Unknown", <<"call us", "maybe">>),
     Seg(NaiveDateTime(2020, 1, 2, 0, 0, 0, 0),  "RuleKind::Closed",  <<>>) >>

\* The textual descriptions given to validate and to the constructor.
Texts ==
  {"24/7", "24/7 off", "24/7 unknown",
   "2020 Jan 1 00:00-12:00 open, 12:00-24:00 unknown", "24/77"}

\* parser::parse: a pure function of the text.
parse(oh) ==
  CASE oh = "24/7"         -> [tag |-> "Ok", val |-> TD_open]
    [] oh = "24/7 off"     -> [tag |-> "Ok", val |-> TD_off]
    [] oh = "24/7 unknown" -> [tag |-> "Ok", val |-> TD_unknown]
    [] oh = "2020 Jan 1 00:00-12:00 open, 12:00-24:00 unknown"
                           -> [tag |-> "Ok", val |-> TD_alternating]
    [] OTHER               -> [tag |-> "Err", val |-> <<"unexpected token", oh>>]

\* Index of the segment holding instant t.
SegIndex(td, t) ==
  CHOOSE i \in 1..Len(td) :
    /\ i = 1 \/ DtGeq(t, td[i].from)
    /\ i = Len(td) \/ DtLess(t, td[i + 1].from)

\* time_domain::TimeDomain::state
td_state(td, t) ==
  td[SegIndex(td, t)].kind

\* time_domain::TimeDomain::is_open / is_closed / is_unknown
td_is_open(td, t) ==
  td_state(td, t) = "RuleKind::Open"

td_is_closed(td, t) ==
  td_state(td, t) = "RuleKind::Closed"

td_is_unknown(td, t) ==
  td_state(td, t) = "RuleKind::Unknown"

\* time_domain::TimeDomain::next_change
td_next_change(td, t) ==
  LET i == SegIndex(td, t)
  IN  IF i < Len(td) THEN td[i + 1].from ELSE DATE_LIMIT

\* DateTimeRange { range: start..end, kind, comments }
DateTimeRange(start, end, kind, comments) ==
  [start |-> start, end |-> end, kind |-> kind, comments |-> comments]

\* time_domain::TimeDomain::iter_range: the maximal spans of constant state
\* clipped to [start, end), in time order: the segments from the one holding
\* start to the last one beginning before end.
td_iter_range(td, start, end) ==
  CHOOSE items \in
    { IF DtGeq(start, b.lim)
        THEN <<>>
        ELSE [k \in 1..(b.hi - b.lo + 1) |->
               DateTimeRange(IF k = 1 THEN start ELSE td[b.lo + k - 1].from,
                             IF b.lo + k - 1 = b.hi THEN b.lim ELSE td[b.lo + k].from,
                             td[b.lo + k - 1].kind,
                             td[b.lo + k - 1].comments)]
      : b \in { [lim |-> DtMin(end, DATE_LIMIT),
                 lo  |-> SegIndex(td, start),
                 hi  |-> CHOOSE i \in SegIndex(td, start)..Len(td) :
                           /\ i = SegIndex(td, start)
                                \/ DtLess(td[i].from, DtMin(end, DATE_LIMIT))
                           /\ i = Len(td)
                                \/ DtGeq(td[i + 1].from, DtMin(end, DATE_LIMIT))] } }
    : TRUE

\* time_domain::TimeDomain::iter_from
td_iter_from(td, start) ==
  td_iter_range(td, start, DATE_LIMIT)

\* --------------------------------------------------------------------------
\* Inputs from the host
\* --------------------------------------------------------------------------

\* Number of RangeIterator objects the host holds at once.
MaxStreams ==
  2

StreamIds ==
  1..MaxStreams

\* Python datetimes passed as arguments.
H_midnight ==
  PyDateTime(2020, 1, 1, 0, 0, 0, 0)

H_morning ==
  PyDateTime(2020, 1, 1, 6, 30, 30, 7)

H_noon ==
  PyDateTime(2020, 1, 1, 12, 0, 0, 0)

H_max ==
  PyDateTime(9999, 12, 31, 23, 59, 59, 999999)

\* Option<datetime> arguments of the point queries.
TimeArgs ==
  {None, Some(H_morning), Some(H_max)}

\* Option<datetime> arguments of intervals().
StartArgs ==
  {None, Some(H_morning)}

EndArgs ==
  {None, Some(H_midnight), Some(H_max)}

\* Value Local::now().naive_local() reads from the wall clock: an instant with
\* seconds and a fraction of a second.
NowValues ==
  {NaiveDateTime(2020, 1, 1, 11, 59, 59, 500000000)}

\* --------------------------------------------------------------------------
\* lib.rs and types.rs: the operations as functions
\* --------------------------------------------------------------------------

\* Extraction of an Option<NaiveDateTimeWrapper> argument, then
\* time.map(Into::into).
extract_opt(arg) ==
  IF arg.tag = "Some" THEN Some(extract(arg.val)) ELSE None

\* get_time: the given instant, or the wall clock.
get_time(datetime, now) ==
  IF datetime.tag = "Some" THEN datetime.val ELSE now

\* impl From<parser::Error> for ParserError
ParserError_from(parser_error) ==
  [tag |-> "ParserError", inner |-> parser_error]

\* impl Display for ParserError
ParserError_to_string(self) ==
  << "could not parse expression:" >> \o self.inner

\* impl From<ParserError> for PyErr
PyErr_from(parser_error) ==
  [tag |-> "PySyntaxError", msg |-> ParserError_to_string(parser_error)]

\* Fault: validate testing is_err() for is_ok().
validate_is_err(oh) ==
  parse(oh).tag = "Err"

\* validate
validate(oh) ==
  parse(oh).tag = "Ok"

\* TimeDomain::new: Ok(the parsed value, to be put in an Arc) or Err(PyErr).
TimeDomain_new(oh) ==
  LET parsed == parse(oh)
  IN  IF parsed.tag = "Ok"
        THEN [tag |-> "Ok", inner |-> parsed.val]
        ELSE [tag |-> "Err", err |-> PyErr_from(ParserError_from(parsed.val))]

\* TimeDomain::state
TimeDomain_state(inner, time, now) ==
  State_from(td_state(inner, get_time(time, now)))

\* TimeDomain::is_open
TimeDomain_is_open(inner, time, now) ==
  td_is_open(inner, get_time(time, now))

\* TimeDomain::is_closed
TimeDomain_is_closed(inner, time, now) ==
  td_is_closed(inner, get_time(time, now))

\* TimeDomain::is_unknown
TimeDomain_is_unknown(inner, time, now) ==
  td_is_unknown(inner, get_time(time, now))

\* TimeDomain::next_change
TimeDomain_next_change(inner, time, now) ==
  td_next_change(inner, get_time(time, now))

\* Fault: RangeIterator::new always taking the iter_from branch.
RangeIterator_new_unbounded(start, end) ==
  [tag |-> "RangeIterator", _td |-> TRUE,
   iter |-> [start |-> start, end |-> None, pos |-> 0]]

\* The engine iterator boxed by RangeIterator::new: which engine call it
\* comes from, and how many elements it has produced.
RangeIterator_new(start, end) ==
  [tag |-> "RangeIterator", _td |-> TRUE,
   iter |-> [start |-> start, end |-> end, pos |-> 0]]

\* The elements the boxed iterator walks, read from the borrowed TimeDomain.
iter_items(td, iter) ==
  IF iter.end.tag = "Some"
    THEN td_iter_range(td, iter.start, iter.end.val)
    ELSE td_iter_from(td, iter.start)

\* slf.iter.next(): the next element, or None once there is none left.
iter_next(td, iter) ==
  LET items == iter_items(td, iter)
  IN  IF iter.pos < Len(items)
        THEN [item |-> Some(items[iter.pos + 1]), iter |-> [iter EXCEPT !.pos = @ + 1]]
        ELSE [item |-> None, iter |-> iter]

\* Fault: __next__ with the two bounds of the range exchanged.
RangeIterator_next_swapped(item) ==
  IF item.tag = "None"
    THEN None
    ELSE Some([start |-> item.val.end, end |-> item.val.start,
               state |-> State_from(item.val.kind), comments |-> item.val.comments])

\* RangeIterator::__next__: the tuple built from one engine element.
RangeIterator_next(item) ==
  IF item.tag = "None"
    THEN None
    ELSE Some([start |-> item.val.start, end |-> item.val.end,
               state |-> State_from(item.val.kind), comments |-> item.val.comments])

\* Conversion of the returned tuple to Python: each datetime through
\* IntoPy<Py<PyAny>>, the state through its token.
tuple_into_py(ret) ==
  IF ret.tag = "None"
    THEN None
    ELSE LET s == into_py_any(ret.val.start)
             e == into_py_any(ret.val.end)
         IN  IF s = Panic \/ e = Panic
               THEN Panic
               ELSE Some([start |-> s, end |-> e,
                          state |-> State_into_py(ret.val.state),
                          comments |-> ret.val.comments])

\* Fault: __iter__ starting the iteration again.
RangeIterator_iter_restart(slf) ==
  [slf EXCEPT !.iter.pos = 0]

\* RangeIterator::__iter__: the same object.
RangeIterator_iter(slf) ==
  slf

\* Arc<time_domain::TimeDomain>
Arc_new(data) ==
  [strong |-> 1, state |-> "alive", data |-> data]

Arc_clone(a) ==
  [a EXCEPT !.strong = @ + 1]

Arc_drop(a) ==
  IF a.strong = 1
    THEN [strong |-> 0, state |-> "dropped", data |-> <<>>]
    ELSE [a EXCEPT !.strong = @ - 1]

\* --------------------------------------------------------------------------
\* State
\* --------------------------------------------------------------------------
VARIABLES
  handle,   \* the Python TimeDomain object: "absent", "live" or "released"
  arc,      \* the Arc<time_domain::TimeDomain> allocation: count and value
  err,      \* the exception raised by the last failed construction
  streams,  \* the RangeIterator objects held by the host, by slot
  ret,      \* what the last point query or __iter__ returned to the host
  seen,     \* per explicit instant, the token state() returned for it
  vtab,     \* per text, what validate returned
  ctab,     \* per text, what the constructor did
  qtab,     \* per query and explicit instant, what the query returned
  bridge    \* one datetime on its way through extract and into_py

vars ==
  <<handle, arc, err, streams, ret, seen, vtab, ctab, qtab, bridge>>

\* Explicit instants whose state() result is recorded.
SeenArgs ==
  {H_morning}

QueryOps ==
  {"state", "is_open", "is_closed", "is_unknown"}

QueryArgs ==
  {H_morning, H_noon, H_max}

Unseen ==
  [tag |-> "Unseen"]

Init ==
  /\ handle = "absent"
  /\ arc = [strong |-> 0, state |-> "unallocated", data |-> <<>>]
  /\ err = None
  /\ streams = [s \in StreamIds |-> None]
  /\ ret = [op |-> "none"]
  /\ seen = [a \in SeenArgs |-> "unseen"]
  /\ vtab = [t \in Texts |-> Unseen]
  /\ ctab = [t \in Texts |-> Unseen]
  /\ qtab = [q \in QueryOps \X QueryArgs |-> Unseen]
  /\ bridge = [pc |-> "idle"]

\* A RangeIterator is being dropped: its _td field is gone, its iter is not.
Busy ==
  \E s \in StreamIds : streams[s].tag = "RangeIterator" /\ ~streams[s]._td

\* --------------------------------------------------------------------------
\* Operations of the Python module
\* --------------------------------------------------------------------------

\* opening_hours.TimeDomain(oh)
New(oh) ==
  /\ handle = "absent"
  /\ LET r == TimeDomain_new(oh)
     IN  IF r.tag = "Ok"
           THEN /\ handle' = "live"
                /\ arc' = Arc_new(r.inner)
                /\ err' = None
           ELSE /\ err' = Some(r.err)
                /\ UNCHANGED <<handle, arc>>
  /\ UNCHANGED <<streams, ret, seen, vtab, ctab, qtab, bridge>>

\* td.state(time)
StateQuery(time, now) ==
  /\ handle = "live" /\ ~Busy
  /\ LET token == State_into_py(TimeDomain_state(arc.data, extract_opt(time), now))
     IN  /\ ret' = [op |-> "state", val |-> token]
         /\ seen' = IF time.tag = "Some" /\ time.val \in SeenArgs
                      THEN [seen EXCEPT ![time.val] = token]
                      ELSE seen
  /\ UNCHANGED <<handle, arc, err, streams, vtab, ctab, qtab, bridge>>

\* td.is_open(time)
IsOpen(time, now) ==
  /\ handle = "live" /\ ~Busy
  /\ ret' = [op |-> "is_open",
             val |-> TimeDomain_is_open(arc.data, extract_opt(time), now)]
  /\ UNCHANGED <<handle, arc, err, streams, seen, vtab, ctab, qtab, bridge>>

\* td.is_closed(time)
IsClosed(time, now) ==
  /\ handle = "live" /\ ~Busy
  /\ ret' = [op |-> "is_closed",
             val |-> TimeDomain_is_closed(arc.data, extract_opt(time), now)]
  /\ UNCHANGED <<handle, arc, err, streams, seen, vtab, ctab, qtab, bridge>>

\* td.is_unknown(time)
IsUnknown(time, now) ==
  /\ handle = "live" /\ ~Busy
  /\ ret' = [op |-> "is_unknown",
             val |-> TimeDomain_is_unknown(arc.data, extract_opt(time), now)]
  /\ UNCHANGED <<handle, arc, err, streams, seen, vtab, ctab, qtab, bridge>>

\* td.next_change(time): the engine's instant and what Python receives.
NextChange(time, now) ==
  /\ handle = "live" /\ ~Busy
  /\ LET d == TimeDomain_next_change(arc.data, extract_opt(time), now)
     IN  ret' = [op |-> "next_change", engine |-> d, val |-> into_py_any(d)]
  /\ UNCHANGED <<handle, arc, err, streams, seen, vtab, ctab, qtab, bridge>>

\* td.intervals(start, end): a new RangeIterator holding a clone of the Arc.
Intervals(start, end, now) ==
  /\ handle = "live" /\ ~Busy
  /\ \E s \in StreamIds :
       /\ streams[s] = None
       /\ \A x \in StreamIds : x < s => streams[x] # None
       /\ LET it == RangeIterator_new(get_time(extract_opt(start), now), extract_opt(end))
          IN  streams' = [streams EXCEPT ![s] =
                [tag |-> it.tag, _td |-> it._td, iter |-> it.iter,
                 args |-> [start |-> start, end |-> end,
                           now |-> IF start = None THEN Some(now) ELSE None],
                 yielded |-> <<>>,
                 out |-> <<>>,
                 last |-> [tag |-> "Fresh"]]]
  /\ arc' = Arc_clone(arc)
  /\ UNCHANGED <<handle, err, ret, seen, vtab, ctab, qtab, bridge>>

\* One __next__ call on a RangeIterator whose borrowed TimeDomain is a.data:
\* the iterator advances, the tuple is converted and handed to Python.
\* (Each intermediate value is bound once, as an element of a singleton.)
stream_next(slf, a) ==
  IF a.state # "alive"
    THEN [slf EXCEPT !.last = [tag |-> "UB"]]
    ELSE CHOOSE after \in
           { CHOOSE after_rust \in
               { CHOOSE after_py \in
                   { [slf EXCEPT
                        !.iter = step.iter,
                        !.yielded = IF rust.tag = "Some" THEN Append(@, rust.val) ELSE @,
                        !.out = IF py.tag = "Some" THEN Append(@, py.val) ELSE @,
                        !.last = py]
                     : py \in { tuple_into_py(rust) } } : TRUE
                 : rust \in { RangeIterator_next(step.item) } } : TRUE
             : step \in { iter_next(a.data, slf.iter) } } : TRUE

\* Fault: one cursor shared by all the streams of a domain.
PyIterProtocol_next_shared(ss, s, a) ==
  [x \in DOMAIN ss |-> IF ss[x] # None THEN stream_next(ss[x], a) ELSE ss[x]]

\* __next__ takes PyRefMut<Self>: it changes the object it is called on.
PyIterProtocol_next(ss, s, a) ==
  [ss EXCEPT ![s] = stream_next(ss[s], a)]

\* next(it)
Next_(s) ==
  /\ streams[s] # None /\ ~Busy
  /\ streams' = PyIterProtocol_next(streams, s, arc)
  /\ UNCHANGED <<handle, arc, err, ret, seen, vtab, ctab, qtab, bridge>>

\* iter(it)
Iter(s) ==
  /\ streams[s] # None /\ ~Busy
  /\ streams' = [streams EXCEPT ![s] = RangeIterator_iter(@)]
  /\ ret' = [op |-> "__iter__"]
  /\ UNCHANGED <<handle, arc, err, seen, vtab, ctab, qtab, bridge>>

\* The host releases the TimeDomain object: its inner Arc is dropped.
DropHandle ==
  /\ handle = "live" /\ ~Busy
  /\ handle' = "released"
  /\ arc' = Arc_drop(arc)
  /\ UNCHANGED <<err, streams, ret, seen, vtab, ctab, qtab, bridge>>

\* The host releases a RangeIterator.  Its fields are dropped in declaration
\* order: _td first ...
DropStream_td(s) ==
  /\ streams[s] # None /\ ~Busy
  /\ streams' = [streams EXCEPT ![s]._td = FALSE]
  /\ arc' = Arc_drop(arc)
  /\ UNCHANGED <<handle, err, ret, seen, vtab, ctab, qtab, bridge>>

\* ... then iter, which ends the object.
DropStream_iter(s) ==
  /\ streams[s] # None /\ ~streams[s]._td
  /\ streams' = [streams EXCEPT ![s] = None]
  /\ UNCHANGED <<handle, arc, err, ret, seen, vtab, ctab, qtab, bridge>>

Next ==
  \/ \E oh \in Texts : New(oh)
  \/ \E time \in TimeArgs, now \in NowValues : StateQuery(time, now)
  \/ \E time \in TimeArgs, now \in NowValues : IsOpen(time, now)
  \/ \E time \in TimeArgs, now \in NowValues : IsClosed(time, now)
  \/ \E time \in TimeArgs, now \in NowValues : IsUnknown(time, now)
  \/ \E time \in TimeArgs, now \in NowValues : NextChange(time, now)
  \/ \E start \in StartArgs, end \in EndArgs, now \in NowValues : Intervals(start, end, now)
  \/ \E s \in StreamIds : Next_(s)
  \/ \E s \in StreamIds : Iter(s)
  \/ DropHandle
  \/ \E s \in StreamIds : DropStream_td(s)
  \/ \E s \in StreamIds : DropStream_iter(s)

Spec ==
  Init /\ [][Next]_vars

\* --------------------------------------------------------------------------
\* The same operations, with their results tabulated per argument
\* --------------------------------------------------------------------------

\* opening_hours.validate(oh)
Validate(oh) ==
  /\ vtab' = [vtab EXCEPT ![oh] = Some(validate(oh))]
  /\ UNCHANGED <<handle, arc, err, streams, ret, seen, ctab, qtab, bridge>>

\* opening_hours.TimeDomain(oh), the object being released at once.
Construct(oh) ==
  /\ ctab' = [ctab EXCEPT ![oh] = TimeDomain_new(oh)]
  /\ UNCHANGED <<handle, arc, err, streams, ret, seen, vtab, qtab, bridge>>

ParseNext ==
  \/ \E oh \in Texts : Validate(oh)
  \/ \E oh \in Texts : Construct(oh)

ParseSpec ==
  Init /\ [][ParseNext]_vars

\* td.state(time), td.is_open(time), td.is_closed(time), td.is_unknown(time)
\* for an explicit time.
QState(time) ==
  /\ handle = "live"
  /\ qtab' = [qtab EXCEPT ![<<"state", time>>] =
       Some(State_into_py(TimeDomain_state(arc.data, extract_opt(Some(time)), None)))]
  /\ UNCHANGED <<handle, arc, err, streams, ret, seen, vtab, ctab, bridge>>

QIsOpen(time) ==
  /\ handle = "live"
  /\ qtab' = [qtab EXCEPT ![<<"is_open", time>>] =
       Some(TimeDomain_is_open(arc.data, extract_opt(Some(time)), None))]
  /\ UNCHANGED <<handle, arc, err, streams, ret, seen, vtab, ctab, bridge>>

QIsClosed(time) ==
  /\ handle = "live"
  /\ qtab' = [qtab EXCEPT ![<<"is_closed", time>>] =
       Some(TimeDomain_is_closed(arc.data, extract_opt(Some(time)), None))]
  /\ UNCHANGED <<handle, arc, err, streams, ret, seen, vtab, ctab, bridge>>

QIsUnknown(time) ==
  /\ handle = "live"
  /\ qtab' = [qtab EXCEPT ![<<"is_unknown", time>>] =
       Some(TimeDomain_is_unknown(arc.data, extract_opt(Some(time)), None))]
  /\ UNCHANGED <<handle, arc, err, streams, ret, seen, vtab, ctab, bridge>>

QueryNext ==
  \/ \E oh \in Texts : New(oh)
  \/ \E time \in QueryArgs : QState(time)
  \/ \E time \in QueryArgs : QIsOpen(time)
  \/ \E time \in QueryArgs : QIsClosed(time)
  \/ \E time \in QueryArgs : QIsUnknown(time)

QuerySpec ==
  Init /\ [][QueryNext]_vars

\* --------------------------------------------------------------------------
\* The datetime bridge on its own: a Python datetime is extracted, and the
\* extracted value is converted back.
\* --------------------------------------------------------------------------
HostDateTimes ==
  { PyDateTime(y, mo, d, h, mi, s, us) :
      y \in {1, 2020, 9999}, mo \in {1, 12}, d \in {1, 31},
      h \in {0, 23}, mi \in {0, 59}, s \in {0, 30, 59}, us \in {0, 999999} }

BridgeInit ==
  /\ handle = "absent"
  /\ arc = [strong |-> 0, state |-> "unallocated", data |-> <<>>]
  /\ err = None
  /\ streams = [s \in StreamIds |-> None]
  /\ ret = [op |-> "none"]
  /\ seen = [a \in SeenArgs |-> "unseen"]
  /\ vtab = [t \in Texts |-> Unseen]
  /\ ctab = [t \in Texts |-> Unseen]
  /\ qtab = [q \in QueryOps \X QueryArgs |-> Unseen]
  /\ bridge \in { [pc |-> "host", h |-> h] : h \in HostDateTimes }

Extract ==
  /\ bridge.pc = "host"
  /\ bridge' = [pc |-> "engine", h |-> bridge.h, e |-> extract(bridge.h)]
  /\ UNCHANGED <<handle, arc, err, streams, ret, seen, vtab, ctab, qtab>>

IntoPy ==
  /\ bridge.pc = "engine"
  /\ bridge' = [pc |-> "back", h |-> bridge.h, e |-> bridge.e, back |-> into_py(bridge.e)]
  /\ UNCHANGED <<handle, arc, err, streams, ret, seen, vtab, ctab, qtab>>

BridgeNext ==
  \/ Extract
  \/ IntoPy

BridgeSpec ==
  BridgeInit /\ [][BridgeNext]_vars

\* --------------------------------------------------------------------------
\* The range streams under a caller that keeps pulling
\* --------------------------------------------------------------------------
StreamNext ==
  \/ \E oh \in Texts : New(oh)
  \/ \E start \in StartArgs, end \in EndArgs, now \in NowValues : Intervals(start, end, now)
  \/ \E s \in StreamIds : Next_(s)
  \/ \E s \in StreamIds : Iter(s)
  \/ DropHandle
  \/ \E s \in StreamIds : DropStream_td(s)
  \/ \E s \in StreamIds : DropStream_iter(s)

\* The caller of a stream it still holds calls next() again and again, and a
\* drop that has begun completes.
FairSpec ==
  /\ Init
  /\ [][StreamNext]_vars
  /\ \A s \in StreamIds : SF_vars(Next_(s))
  /\ \A s \in StreamIds : WF_vars(DropStream_iter(s))

\* --------------------------------------------------------------------------
\* Properties
\* --------------------------------------------------------------------------

\* The latest instant Python's datetime can hold, to the second.
MaxRepresentableInstant ==
  [year |-> 9999, month |-> 12, day |-> 31,
   hour |-> 23, minute |-> 59, second |-> 59, nano |-> 0]

IsStream(s) ==
  streams[s] # None

\* C1: the parsed TimeDomain value is alive whenever the Domain Handle or a
\* Range Stream derived from it still exists, the teardown of the stream
\* included; it is destroyed only once the handle and every stream are gone.
C1_ValueOutlivesHolders ==
  (handle = "live" \/ \E s \in StreamIds : IsStream(s)) => arc.state = "alive"

\* What to_host is to return for the engine datetime d: absence at or after
\* MaxRepresentableInstant, else the same year, month, day, hour and minute
\* with seconds and sub-seconds 0.
ToHostExpected(d) ==
  IF ~DtLess(d, MaxRepresentableInstant)
    THEN None
    ELSE Some([year |-> d.year, month |-> d.month, day |-> d.day,
               hour |-> d.hour, minute |-> d.minute, second |-> 0,
               microsecond |-> 0])

\* A Python datetime that is neither wrapped nor malformed.
WellFormedHost(v) ==
  v.tag = "Some" =>
    /\ v.val.year \in 1..9999 /\ v.val.month \in 1..12 /\ v.val.day \in 1..31
    /\ v.val.hour \in 0..23 /\ v.val.minute \in 0..59

\* C2: every engine datetime handed back to the host (the result of
\* next_change, the start and the end of every record returned by next())
\* arrives as absence iff it is at or after MaxRepresentableInstant, and
\* otherwise as the well-formed datetime with the same fields down to the
\* minute and seconds and sub-seconds 0.
C2_ToHostClamps ==
  /\ ret.op = "next_change" =>
       ret.val = ToHostExpected(ret.engine) /\ WellFormedHost(ret.val)
  /\ \A s \in StreamIds : IsStream(s) =>
       /\ Len(streams[s].out) = Len(streams[s].yielded)
       /\ \A k \in 1..Len(streams[s].yielded) :
            /\ streams[s].out[k].start = ToHostExpected(streams[s].yielded[k].start)
            /\ streams[s].out[k].end = ToHostExpected(streams[s].yielded[k].end)
            /\ WellFormedHost(streams[s].out[k].start)
            /\ WellFormedHost(streams[s].out[k].end)

\* C2 witness: next_change returned absence for an instant past the maximum,
\* and a stream returned a record whose start lost its seconds and whose end,
\* exactly MaxRepresentableInstant, became absence.
C2_Witness ==
  /\ ret.op = "next_change" /\ ret.val = None
  /\ \E s \in StreamIds : IsStream(s) /\ \E k \in 1..Len(streams[s].out) :
       /\ streams[s].yielded[1].start.second # 0
       /\ streams[s].out[1].start.tag = "Some"
       /\ streams[s].yielded[k].end = MaxRepresentableInstant
       /\ streams[s].out[k].end = None

\* The answers tabulated for instant i.
Asked(op, i) ==
  qtab[<<op, i>>] # Unseen

Answer(op, i) ==
  qtab[<<op, i>>].val

\* C3: for every instant i, is_open(i) iff state(i) is "open", is_closed(i)
\* iff state(i) is "closed", is_unknown(i) iff state(i) is "unknown", and
\* exactly one of the three is true.
C3_PredicatesMatchState ==
  \A i \in QueryArgs :
    /\ Asked("state", i) => Answer("state", i) \in {"open", "closed", "unknown"}
    /\ Asked("state", i) /\ Asked("is_open", i) =>
         (Answer("is_open", i) <=> Answer("state", i) = "open")
    /\ Asked("state", i) /\ Asked("is_closed", i) =>
         (Answer("is_closed", i) <=> Answer("state", i) = "closed")
    /\ Asked("state", i) /\ Asked("is_unknown", i) =>
         (Answer("is_unknown", i) <=> Answer("state", i) = "unknown")
    /\ Asked("is_open", i) /\ Asked("is_closed", i) /\ Asked("is_unknown", i) =>
         Cardinality({op \in {"is_open", "is_closed", "is_unknown"} : Answer(op, i)}) = 1

\* C3 witness: all four queries were answered for two instants whose states
\* differ, one of them "unknown".
C3_Witness ==
  /\ \A op \in QueryOps : Asked(op, H_morning) /\ Asked(op, H_noon)
  /\ Answer("state", H_morning) = "open"
  /\ Answer("state", H_noon) = "unknown"
  /\ Answer("is_unknown", H_noon)

\* The instants intervals(start, end) was called with, as the engine sees
\* them.
ArgStart(st) ==
  IF st.args.start = None
    THEN st.args.now.val
    ELSE [year |-> st.args.start.val.year, month |-> st.args.start.val.month,
          day |-> st.args.start.val.day, hour |-> st.args.start.val.hour,
          minute |-> st.args.start.val.minute, second |-> st.args.start.val.second,
          nano |-> 0]

ArgEnd(st) ==
  [year |-> st.args.end.val.year, month |-> st.args.end.val.month,
   day |-> st.args.end.val.day, hour |-> st.args.end.val.hour,
   minute |-> st.args.end.val.minute, second |-> st.args.end.val.second,
   nano |-> 0]

DtLeq(a, b) ==
  ~DtLess(b, a)

\* C4: for a bounded query intervals(start, end), every record returned by
\* next() has start <= record.start < record.end <= end, the first record
\* starts at start, each record starts where the previous one ended, and once
\* the stream is exhausted the records cover [start, end) exactly.
C4_BoundedRecordsTile ==
  \A s \in StreamIds : IsStream(s) /\ streams[s].args.end # None =>
    LET st == streams[s]
        rs == st.yielded
        n  == Len(rs)
    IN  /\ \A k \in 1..n :
             /\ DtLeq(ArgStart(st), rs[k].start)
             /\ DtLess(rs[k].start, rs[k].end)
             /\ DtLeq(rs[k].end, ArgEnd(st))
        /\ n >= 1 => rs[1].start = ArgStart(st)
        /\ \A k \in 1..(n - 1) : rs[k + 1].start = rs[k].end
        /\ st.last = None =>
             IF DtLess(ArgStart(st), ArgEnd(st))
               THEN n >= 1 /\ rs[n].end = ArgEnd(st)
               ELSE n = 0

\* C4 witness: a bounded stream was pulled to exhaustion and returned three
\* records; another bounded stream with end <= start returned none.
C4_Witness ==
  /\ \E s \in StreamIds :
       /\ IsStream(s) /\ streams[s].args.end # None
       /\ streams[s].last = None /\ Len(streams[s].yielded) = 3
  /\ \E s \in StreamIds :
       /\ IsStream(s) /\ streams[s].args.end # None
       /\ streams[s].last = None /\ Len(streams[s].yielded) = 0

\* C5: for every text t, validate(t) is true iff constructing a Domain Handle
\* from t succeeds; a failed construction raises the one error kind, a syntax
\* error carrying the rendered diagnostic, and produces no handle.
C5_ValidateAgreesWithNew ==
  \A t \in Texts :
    /\ vtab[t] # Unseen /\ ctab[t] # Unseen =>
         (vtab[t].val <=> ctab[t].tag = "Ok")
    /\ ctab[t] # Unseen /\ ctab[t].tag # "Ok" =>
         /\ ctab[t].tag = "Err"
         /\ DOMAIN ctab[t] = {"tag", "err"}
         /\ ctab[t].err.tag = "PySyntaxError"
         /\ ctab[t].err.msg = << "could not parse expression:", "unexpected token", t >>
    /\ ctab[t] # Unseen /\ ctab[t].tag = "Ok" =>
         DOMAIN ctab[t] = {"tag", "inner"}

\* C5 witness: validate and the constructor were both tried on a valid and on
\* an invalid text; the first validated and constructed, the second did
\* neither.
C5_Witness ==
  /\ vtab["24/7"] = Some(TRUE) /\ ctab["24/7"] # Unseen /\ ctab["24/7"].tag = "Ok"
  /\ vtab["24/77"] = Some(FALSE) /\ ctab["24/77"] # Unseen /\ ctab["24/77"].tag = "Err"

\* C6: after a successful construction, state, is_open, is_closed,
\* is_unknown, next_change and every next() return a value and never raise or
\* abort; an engine datetime at or beyond MaxRepresentableInstant comes back
\* as absence.
C6_QueriesAreTotal ==
  /\ handle # "absent" => err = None
  /\ ret.op = "state" => ret.val \in {"open", "closed", "unknown"}
  /\ ret.op \in {"is_open", "is_closed", "is_unknown"} => ret.val \in BOOLEAN
  /\ ret.op = "next_change" =>
       /\ ret.val.tag \in {"Some", "None"}
       /\ ~DtLess(ret.engine, MaxRepresentableInstant) => ret.val = None
  /\ \A s \in StreamIds : IsStream(s) =>
       /\ streams[s].last.tag \in {"Fresh", "Some", "None"}
       /\ streams[s].last.tag = "Some" =>
            /\ streams[s].last.val.start.tag \in {"Some", "None"}
            /\ streams[s].last.val.end.tag \in {"Some", "None"}
            /\ ~DtLess(streams[s].yielded[Len(streams[s].yielded)].end,
                       MaxRepresentableInstant)
                 => streams[s].last.val.end = None

\* C6 witness: next_change was given the engine's date limit, beyond what
\* Python can hold, and returned absence; an unbounded stream returned its
\* last record, whose end is that limit, as absence.
C6_Witness ==
  /\ ret.op = "next_change" /\ ret.engine.year > 9999 /\ ret.val = None
  /\ \E s \in StreamIds :
       /\ IsStream(s) /\ streams[s].args.end = None
       /\ streams[s].last.tag = "Some"
       /\ streams[s].yielded[Len(streams[s].yielded)].end.year > 9999
       /\ streams[s].last.val.end = None

\* C7: for every Python datetime h strictly below MaxRepresentableInstant,
\* to_host(to_engine(h)) is present and has h's year, month, day, hour and
\* minute, with seconds (and sub-seconds) 0.
HostBelowMax(h) ==
  \/ h.year < 9999
  \/ h.year = 9999 /\ h.month < 12
  \/ h.year = 9999 /\ h.month = 12 /\ h.day < 31
  \/ h.year = 9999 /\ h.month = 12 /\ h.day = 31 /\ h.hour < 23
  \/ h.year = 9999 /\ h.month = 12 /\ h.day = 31 /\ h.hour = 23 /\ h.minute < 59
  \/ h.year = 9999 /\ h.month = 12 /\ h.day = 31 /\ h.hour = 23 /\ h.minute = 59
       /\ h.second < 59

C7_RoundTrip ==
  bridge.pc = "back" /\ HostBelowMax(bridge.h) =>
    /\ bridge.back.tag = "Ok"
    /\ bridge.back.val.tag = "Some"
    /\ bridge.back.val.val = [bridge.h EXCEPT !.second = 0, !.microsecond = 0]

\* C7 witness: a datetime of the last representable minute, with seconds 30,
\* went through both conversions and came back with seconds 0.
C7_Witness ==
  /\ bridge.pc = "back"
  /\ bridge.h = [year |-> 9999, month |-> 12, day |-> 31, hour |-> 23,
                 minute |-> 59, second |-> 30, microsecond |-> 0]
  /\ bridge.back.val.tag = "Some"
  /\ bridge.back.val.val.second = 0

\* A next() call on stream s took place in this step.
Pulled(s) ==
  /\ IsStream(s) /\ streams'[s] # None
  /\ \/ streams'[s].iter # streams[s].iter
     \/ streams'[s].last # streams[s].last

\* C8: no operation mutates the shared TimeDomain value or another stream's
\* cursor: the value is the same for as long as it is alive, state(i) returns
\* for i what it returned before, whatever happened in between, and a next()
\* on one stream leaves every other stream as it was.
C8_NoHiddenMutation ==
  [][ /\ arc.state = "alive" /\ arc'.state = "alive" => arc'.data = arc.data
      /\ \A a \in SeenArgs : seen[a] # "unseen" => seen'[a] = seen[a]
      /\ \A s \in StreamIds : Pulled(s) =>
           \A x \in StreamIds \ {s} : streams'[x] = streams[x]
    ]_vars

\* C8 witness: state(i) has been answered, and of two streams over the same
\* domain one has been pulled twice, the other not at all.
C8_Witness ==
  /\ seen[H_morning] # "unseen"
  /\ IsStream(1) /\ IsStream(2)
  /\ streams[1].iter.pos = 2 /\ streams[2].iter.pos = 0
  /\ streams[1].args = streams[2].args

Bounded(s) ==
  IsStream(s) /\ streams[s].args.end # None

Exhausted(s) ==
  IsStream(s) /\ streams[s].last = None

\* C9: a bounded Range Stream whose caller keeps calling next() is eventually
\* exhausted, and exhaustion is terminal: once a next() call has returned
\* absence, the stream returns absence for as long as it exists, __iter__
\* included.
C9_BoundedStreamEnds ==
  /\ \A s \in StreamIds : Bounded(s) ~> (Exhausted(s) \/ ~Bounded(s))
  /\ [][ \A s \in StreamIds :
           Exhausted(s) /\ streams'[s] # None => streams'[s].last = None ]_vars

\* C9 witness: a bounded stream returned three records and then absence.
C9_Witness ==
  \E s \in StreamIds :
    Bounded(s) /\ Exhausted(s) /\ Len(streams[s].out) = 3 /\ ret.op = "__iter__"

\* The token of an engine kind.
TokenOf(kind) ==
  CASE kind = "RuleKind::Open"    -> "open"
    [] kind = "RuleKind::Closed"  -> "closed"
    [] kind = "RuleKind::Unknown" -> "unknown"

\* The engine iterator intervals(start, end) is to wrap.
EngineItems(st) ==
  IF st.args.end # None
    THEN td_iter_range(arc.data, ArgStart(st), ArgEnd(st))
    ELSE td_iter_from(arc.data, ArgStart(st))

\* C10: the records a Range Stream has returned are, in order, the first
\* elements of the engine iterator it wraps (iter_range(start, end) when end
\* is given, iter_from(start) otherwise, start defaulting to the current
\* instant), one per successful next() call, each as (to_host(start),
\* to_host(end), token, comments); next() returns absence only when the
\* engine iterator has no element left.
C10_StreamMirrorsEngine ==
  \A s \in StreamIds : IsStream(s) /\ streams[s]._td =>
    LET st    == streams[s]
        items == EngineItems(st)
        n     == Len(st.out)
    IN  /\ n <= Len(items)
        /\ st.iter.pos = n
        /\ \A k \in 1..n :
             st.out[k] = [start |-> ToHostExpected(items[k].start),
                          end |-> ToHostExpected(items[k].end),
                          state |-> TokenOf(items[k].kind),
                          comments |-> items[k].comments]
        /\ st.last.tag = "Some" => n >= 1 /\ st.last.val = st.out[n]
        /\ st.last.tag = "Fresh" => n = 0
        /\ st.last = None => n = Len(items)

\* C10 witness: a stream with the default start returned the engine's three
\* elements, of kinds Open, Unknown and Closed, the second with its two
\* comments in order.
C10_Witness ==
  \E s \in StreamIds :
    /\ IsStream(s) /\ streams[s]._td /\ streams[s].args.start = None
    /\ Len(streams[s].out) = 3
    /\ streams[s].out[1].state = "open"
    /\ streams[s].out[2].state = "unknown"
    /\ streams[s].out[2].comments = << "call us", "maybe" >>
    /\ streams[s].out[3].state = "closed"

====
